---------------------------- MODULE Spec2Model ----------------------------
(***************************************************************************)
(* Model of the RSS news pipeline: rss_processor.py (fetch, merge with the *)
(* archive, save) and script.py (time-windowed content extraction and      *)
(* summarisation of archived records).                                     *)
(*                                                                         *)
(* script.py is committed with unresolved merge-conflict markers.  The    *)
(* two sides differ in the window (4 hours on HEAD, 24 hours on the other  *)
(* side) and in whether the summarisation block of                         *)
(* enhanced_content_extraction runs (on the other side it sits inside a    *)
(* string literal).  The variable `side` fixes, for a whole behaviour,     *)
(* which side of the conflict the deployed file was resolved to.           *)
(*                                                                         *)
(* Time is counted in whole hours.  A text is a string; PyLen gives its    *)
(* length in characters.  Python's None is the string "None" for text      *)
(* cells and the empty tuple for timestamps (NaT in a datetime column).    *)
(***************************************************************************)
EXTENDS Integers, Sequences, FiniteSets, TLC

VARIABLES
    file,          \* data/news_archive.pkl: "missing", "complete" or "truncated"
    archive,       \* the rows of the persisted archive (<<>> unless complete)
    now,           \* the wall clock, in hours
    side,          \* which side of the merge conflict of script.py is deployed
    op,            \* the last operation that ran
    pre,           \* the rows of the persisted archive before the last operation
    new_df,        \* the batch fetched by the last run of main
    to_process,    \* index labels selected by the last run of process_links
    result_cols,   \* what enhanced_content_extraction returned for them
    snapshot,      \* whether the last run of main wrote a news_<timestamp>.pkl
    was_summ,      \* titles seen with if_summ = TRUE in the archive before the last operation
    raised,        \* the exception that left the last operation, None when it returned
    arg_url,       \* the argument of the last call of url_matcher on its own
    matched        \* what that call returned

vars == <<file, archive, now, side, op, pre, new_df, to_process, result_cols,
          snapshot, was_summ, raised, arg_url, matched>>

-----------------------------------------------------------------------------
(* Bounds of the model *)

\* the largest number of entries the three feeds return together in one run
MaxBatch == 2

\* the largest number of tokens of a URL handed to url_matcher on its own
MaxUrlLen == 5

\* clock readings at which a run may happen: records of age 0, 1, 4, 5, 20, 21
\* and 25 hours occur
Instants == {0, 4, 5, 25}

-----------------------------------------------------------------------------
(* Values *)

None == "None"
NaT == <<>>
Stamp(t) == <<t>>

LongBody == "long article body"
ShortBody == "short body"
Digest == "- point 1\n- point 2"

\* len() of the texts that occur
PyLen(s) ==
    CASE s = "" -> 0
      [] s = ShortBody -> 10
      [] s = LongBody -> 150
      [] s = Digest -> 19
      [] OTHER -> 0

\* Python truthiness of a text cell: None and '' are falsy
Truthy(s) == s # None /\ s # ""

\* pd.notna of a cell
notna(s) == s # None

-----------------------------------------------------------------------------
(* URLs are sequences of tokens; a prefix or substring test is a test on   *)
(* token sequences.                                                        *)

YahooUrl == <<"https://", "finance.yahoo.com", "/news/", "x">>
YahooHttpUrl == <<"http://", "finance.yahoo.com", "/news/", "x">>
CnbcUrl == <<"https://", "www.", "cnbc.com", "/202", "5/x.html">>
InsiderUrl == <<"https://", "www.", "businessinsider.com", "/x">>
UnknownUrl == <<"https://", "example.com", "/unknown-site/x">>

startswith(url, prefix) ==
    /\ Len(url) >= Len(prefix)
    /\ SubSeq(url, 1, Len(prefix)) = prefix

contains(url, sub) ==
    \E i \in 1..(Len(url) + 1) :
        /\ i + Len(sub) - 1 <= Len(url)
        /\ SubSeq(url, i, i + Len(sub) - 1) = sub

\* url_matcher with a default extractor in place of the final `return None`
url_matcher_default(url) ==
    IF \/ startswith(url, <<"https://", "finance.yahoo.com", "/news/">>)
       \/ startswith(url, <<"http://", "finance.yahoo.com", "/news/">>)
    THEN "extract_yahoo_content"
    ELSE IF contains(url, <<"cnbc.com", "/202">>)
    THEN "extract_cnbc_content"
    ELSE "extract_insider_content"

\* url_matcher with the Business Insider test before the CNBC test
url_matcher_insider_first(url) ==
    IF \/ startswith(url, <<"https://", "finance.yahoo.com", "/news/">>)
       \/ startswith(url, <<"http://", "finance.yahoo.com", "/news/">>)
    THEN "extract_yahoo_content"
    ELSE IF contains(url, <<"businessinsider.com">>)
    THEN "extract_insider_content"
    ELSE IF contains(url, <<"cnbc.com", "/202">>)
    THEN "extract_cnbc_content"
    ELSE None

url_matcher(url) ==
    IF \/ startswith(url, <<"https://", "finance.yahoo.com", "/news/">>)
       \/ startswith(url, <<"http://", "finance.yahoo.com", "/news/">>)
    THEN "extract_yahoo_content"
    ELSE IF contains(url, <<"cnbc.com", "/202">>)
    THEN "extract_cnbc_content"
    ELSE IF contains(url, <<"businessinsider.com">>)
    THEN "extract_insider_content"
    ELSE None


-----------------------------------------------------------------------------
(* rss_processor.py *)

\* config.RSS_SOURCES, in the order the dict is written (and iterated)
RSS_SOURCES == <<"Yahoo Finance", "Business Insider", "CNBC">>

\* The raw entries the feed of a source may return at clock reading t:
\* feedparser entries with a title, a link, published_parsed (absent, or the
\* time of publication) and an embedded content value (absent in these feeds).
\* The Yahoo feed carries one story under its own link or under the link of
\* another site; the Business Insider feed carries one story without a
\* timestamp; the CNBC feed returns nothing (fetch_single_feed gives []).
FeedEntries(source, t) ==
    CASE source = "Yahoo Finance" ->
            [title : {"A"}, link : {YahooUrl, UnknownUrl},
             published_parsed : {Stamp(t)}, content : {None}]
      [] source = "Business Insider" ->
            [title : {"B"}, link : {InsiderUrl},
             published_parsed : {NaT}, content : {None}]
      [] OTHER -> {}

SeqsUpTo(S, n) == UNION {[1..k -> S] : k \in 0..n}

\* what feedparser.parse may hand to fetch_all_feeds in one run: one list of
\* entries per source, at most MaxBatch entries in all
Feeds(t) ==
    {f \in SeqsUpTo(FeedEntries(RSS_SOURCES[1], t), MaxBatch)
           \X SeqsUpTo(FeedEntries(RSS_SOURCES[2], t), MaxBatch)
           \X SeqsUpTo(FeedEntries(RSS_SOURCES[3], t), MaxBatch) :
        Len(f[1]) + Len(f[2]) + Len(f[3]) <= MaxBatch}

process_entry(source, entry) ==
    [source |-> source,
     title |-> entry.title,
     link |-> entry.link,
     utc_time |-> entry.published_parsed,
     eastern_time |-> entry.published_parsed,
     description |-> "",
     content |-> IF Truthy(entry.content) THEN entry.content ELSE "",
     guid |-> entry.link,
     if_summ |-> FALSE,
     summary |-> ""]

fetch_all_feeds(f) ==
    LET rows(k) == [i \in 1..Len(f[k]) |-> process_entry(RSS_SOURCES[k], f[k][i])]
    IN  rows(1) \o rows(2) \o rows(3)

\* the positions of a frame that hold, in order
RECURSIVE Keep(_, _, _)
Keep(df, keep, i) ==
    IF i > Len(df) THEN <<>>
    ELSE (IF keep[i] THEN <<df[i]>> ELSE <<>>) \o Keep(df, keep, i + 1)

\* drop_duplicates with keep='first'
drop_duplicates_first(df) ==
    Keep(df,
         [i \in 1..Len(df) |->
             \A j \in 1..(i - 1) : df[j].title # df[i].title],
         1)

\* DataFrame.drop_duplicates(subset=['title'], keep='last')
drop_duplicates(df) ==
    Keep(df,
         [i \in 1..Len(df) |->
             \A j \in (i + 1)..Len(df) : df[j].title # df[i].title],
         1)

\* merge_with_archive that returns the new batch alone
merge_with_archive_new_only(exists, archive_df, new) == new

\* merge_with_archive; `exists` is os.path.exists(ARCHIVE_FILE)
merge_with_archive(exists, archive_df, new) ==
    IF exists
    THEN drop_duplicates(archive_df \o new)
    ELSE new

Summed(df) == {df[i].title : i \in {j \in 1..Len(df) : df[j].if_summ}}

NoResults == [i \in {} |-> None]

Init ==
    /\ file = "missing"
    /\ archive = <<>>
    /\ now = 0
    /\ side \in {"HEAD", "de2b552"}
    /\ op = "init"
    /\ pre = <<>>
    /\ new_df = <<>>
    /\ to_process = {}
    /\ result_cols = NoResults
    /\ snapshot = FALSE
    /\ was_summ = {}
    /\ raised = None
    /\ arg_url = <<>>
    /\ matched = None

\* a main that saves whatever was fetched, without the test of new_data.empty
empty_never(df) == FALSE

\* DataFrame.empty
empty(df) == df = <<>>

\* what pd.read_pickle raises on the archive file, None when it unpickles
read_pickle_error(f) ==
    CASE f = "missing" -> "FileNotFoundError"
      [] f = "truncated" -> "UnpicklingError"
      [] OTHER -> None

\* rss_processor.main: fetch, and when anything was fetched save_data
\* (snapshot, merge_with_archive, to_pickle).  An exception of save_data
\* reaches the handler of main, whose sys.exit(1) names a module that is not
\* imported.
main ==
    \E f \in Feeds(now) :
        LET new_data == fetch_all_feeds(f) IN
        /\ op' = "main"
        /\ pre' = archive
        /\ new_df' = new_data
        /\ to_process' = {}
        /\ result_cols' = NoResults
        /\ was_summ' = was_summ \cup Summed(archive)
        /\ UNCHANGED <<now, side, arg_url, matched>>
        /\ IF empty(new_data)
           THEN /\ snapshot' = FALSE
                /\ raised' = None
                /\ UNCHANGED <<file, archive>>
           ELSE /\ snapshot' = TRUE
                /\ IF file = "truncated"
                   THEN /\ raised' = "NameError"
                        /\ UNCHANGED <<file, archive>>
                   ELSE /\ raised' = None
                        /\ file' = "complete"
                        /\ archive' = merge_with_archive(file = "complete",
                                                         archive, new_data)

\* time passes between runs
Tick ==
    /\ \E t \in Instants : t > now /\ now' = t
    /\ op' = "tick"
    /\ pre' = archive
    /\ new_df' = <<>>
    /\ to_process' = {}
    /\ result_cols' = NoResults
    /\ snapshot' = FALSE
    /\ was_summ' = was_summ \cup Summed(archive)
    /\ raised' = None
    /\ UNCHANGED <<file, archive, side, arg_url, matched>>

-----------------------------------------------------------------------------
(* script.py *)

\* the length below which generate_summary skips the request
MinSummaryLen == 100

\* hours of the window on each side of the conflict
Window(sd) == IF sd = "HEAD" THEN 4 ELSE 24

\* exceptions that no handler between their origin and process_links catches
Exceptions == {"AttributeError", "TypeError"}

\* what an extractor may return for a page: None (fetch or structure
\* failure) or the text it found.  extract_insider_content calls .get on
\* whatever json.loads gave and catches JSONDecodeError alone: a JSON-LD
\* block that is a list leaves it with an AttributeError.
PageOutcomes(extractor) ==
    IF extractor = "extract_insider_content"
    THEN {None, ShortBody, LongBody, "AttributeError"}
    ELSE {None, ShortBody, LongBody}

\* what the summarisation request may yield: None stands for a failure that
\* generate_summary catches (RequestException, KeyError), a text for the
\* joined and stripped points, "TypeError" for a response whose JSON is no
\* object or whose points are no list of strings
ApiOutcomes == {None, Digest, "TypeError"}

generate_summary(content, api) ==
    IF ~Truthy(content) \/ PyLen(content) < MinSummaryLen
    THEN None
    ELSE api

\* enhanced_content_extraction that flags a row whenever an extractor matched
enhanced_content_extraction_flag_on_match(row, page, api, sd) ==
    LET extractor == url_matcher(row.link)
        content == IF extractor # None THEN page ELSE None
        summary == IF sd = "HEAD" /\ Truthy(content) /\ content \notin Exceptions
                   THEN generate_summary(content, api)
                   ELSE None
    IN  IF content \in Exceptions \/ summary \in Exceptions
        THEN [content |-> None, summary |-> None, if_summ |-> FALSE,
              exc |-> IF content \in Exceptions THEN content ELSE summary]
        ELSE [content |-> content, summary |-> summary,
              if_summ |-> extractor # None, exc |-> None]

\* the Series the function returns for a row; exc names the exception that
\* left it instead, None when it returned
enhanced_content_extraction(row, page, api, sd) ==
    LET extractor == url_matcher(row.link)
        content == IF extractor # None THEN page ELSE None
        summary == IF sd = "HEAD" /\ Truthy(content) /\ content \notin Exceptions
                   THEN generate_summary(content, api)
                   ELSE None
    IN  IF content \in Exceptions \/ summary \in Exceptions
        THEN [content |-> None, summary |-> None, if_summ |-> FALSE,
              exc |-> IF content \in Exceptions THEN content ELSE summary]
        ELSE [content |-> content, summary |-> summary,
              if_summ |-> notna(summary), exc |-> None]

\* what to_process.apply(enhanced_content_extraction, axis=1) may give for a
\* row, over everything the page fetch and the summarisation request may do
Extractions(row, sd) ==
    {enhanced_content_extraction(row, page, api, sd) :
        page \in PageOutcomes(url_matcher(row.link)), api \in ApiOutcomes}

\* a row that apply did not reach
NotReached == [content |-> None, summary |-> None, if_summ |-> FALSE,
               exc |-> "not reached"]

\* the comparison with > in place of >=
ge_timestamp_strict(ts, threshold) == ts # NaT /\ ts[1] > threshold

\* Series >= Timestamp, element by element: NaT compares False
ge_timestamp(ts, threshold) == ts # NaT /\ ts[1] >= threshold

\* the boolean mask of process_links
mask(df, t, sd) ==
    [i \in 1..Len(df) |->
        ge_timestamp(df[i].eastern_time, t - Window(sd)) /\ ~df[i].if_summ]

\* DataFrame.update, one row: only non-NA cells of the other frame overwrite
update(row, res) ==
    [row EXCEPT !.content = IF notna(res.content) THEN res.content ELSE @,
                !.summary = IF notna(res.summary) THEN res.summary ELSE @,
                !.if_summ = res.if_summ]

\* an assignment of the three columns as whole columns: rows outside the
\* index get the cells of a frame that has no such rows
loc_assign_columns(df, index, updated) ==
    [i \in 1..Len(df) |->
        IF i \in index
        THEN [df[i] EXCEPT !.content = updated[i].content,
                           !.summary = updated[i].summary,
                           !.if_summ = updated[i].if_summ]
        ELSE [df[i] EXCEPT !.content = None, !.summary = None, !.if_summ = FALSE]]

\* archive_df.loc[index, ['content', 'summary', 'if_summ']] = to_process[...]
loc_assign(df, index, updated) ==
    [i \in 1..Len(df) |->
        IF i \in index
        THEN [df[i] EXCEPT !.content = updated[i].content,
                           !.summary = updated[i].summary,
                           !.if_summ = updated[i].if_summ]
        ELSE df[i]]

\* FileNotFoundError is the one exception process_links handles
handles_nothing(e) == FALSE

handles(e) == e = "FileNotFoundError"

process_links ==
    /\ op' = "process_links"
    /\ pre' = archive
    /\ new_df' = <<>>
    /\ snapshot' = FALSE
    /\ was_summ' = was_summ \cup Summed(archive)
    /\ UNCHANGED <<now, side, file, arg_url, matched>>
    /\ IF read_pickle_error(file) # None
       THEN /\ raised' = IF handles(read_pickle_error(file))
                         THEN None
                         ELSE read_pickle_error(file)
            /\ to_process' = {}
            /\ result_cols' = NoResults
            /\ UNCHANGED archive
       ELSE LET m == mask(archive, now, side)
                index == {i \in 1..Len(archive) : m[i]}
            IN  /\ to_process' = index
                /\ \E results \in [index -> UNION {Extractions(archive[i], side) :
                                                      i \in index}] :
                     LET updated == [i \in index |-> update(archive[i], results[i])]
                         failing == {i \in index : results[i].exc # None}
                     IN  /\ \A i \in index : results[i] \in Extractions(archive[i], side)
                         /\ IF failing = {}
                            THEN /\ raised' = None
                                 /\ result_cols' = results
                                 /\ archive' = IF index = {}
                                               THEN archive
                                               ELSE loc_assign(archive, index, updated)
                            ELSE \* apply stops at the first row that raises, and
                                 \* nothing is written
                                 LET first == CHOOSE i \in failing :
                                                 \A j \in failing : i <= j
                                 IN  /\ raised' = results[first].exc
                                     /\ result_cols' =
                                           [i \in index |->
                                               IF i <= first THEN results[i]
                                               ELSE NotReached]
                                     /\ UNCHANGED archive

Next == main \/ process_links \/ Tick

Spec == Init /\ [][Next]_vars

-----------------------------------------------------------------------------
(* A run killed while DataFrame.to_pickle writes data/news_archive.pkl:    *)
(* to_pickle opens the archive file itself for writing, so the file is     *)
(* left truncated.                                                         *)

main_crash ==
    \E f \in Feeds(now) :
        LET new_data == fetch_all_feeds(f) IN
        /\ new_data # <<>>
        /\ file # "truncated"
        /\ op' = "main_crash"
        /\ pre' = archive
        /\ new_df' = new_data
        /\ to_process' = {}
        /\ result_cols' = NoResults
        /\ snapshot' = TRUE
        /\ was_summ' = was_summ \cup Summed(archive)
        /\ file' = "truncated"
        /\ archive' = <<>>
        /\ raised' = None
        /\ UNCHANGED <<now, side, arg_url, matched>>

process_links_crash ==
    LET m == mask(archive, now, side)
        index == {i \in 1..Len(archive) : m[i]}
    IN  /\ file = "complete"
        /\ index # {}
        /\ op' = "process_links_crash"
        /\ pre' = archive
        /\ new_df' = <<>>
        /\ to_process' = index
        /\ result_cols' = NoResults
        /\ snapshot' = FALSE
        /\ was_summ' = was_summ \cup Summed(archive)
        /\ file' = "truncated"
        /\ archive' = <<>>
        /\ raised' = None
        /\ UNCHANGED <<now, side, arg_url, matched>>

NextCrash == main \/ process_links \/ Tick \/ main_crash \/ process_links_crash

SpecCrash == Init /\ [][NextCrash]_vars

-----------------------------------------------------------------------------
(* url_matcher on its own, over every URL of up to MaxUrlLen tokens *)

UrlTokens == {"https://", "http://", "finance.yahoo.com", "/news/",
              "cnbc.com", "/202", "businessinsider.com"}

Urls == UNION {[1..k -> UrlTokens] : k \in 0..MaxUrlLen}

InitMatcher ==
    /\ file = "missing"
    /\ archive = <<>>
    /\ now = 0
    /\ side \in {"HEAD", "de2b552"}
    /\ op = "init"
    /\ pre = <<>>
    /\ new_df = <<>>
    /\ to_process = {}
    /\ result_cols = NoResults
    /\ snapshot = FALSE
    /\ was_summ = {}
    /\ raised = None
    /\ arg_url \in Urls
    /\ matched = None

call_url_matcher ==
    /\ op' = "url_matcher"
    /\ matched' = url_matcher(arg_url)
    /\ UNCHANGED <<file, archive, now, side, pre, new_df, to_process,
                   result_cols, snapshot, was_summ, raised, arg_url>>

NextMatcher == call_url_matcher

SpecMatcher == InitMatcher /\ [][NextMatcher]_vars

-----------------------------------------------------------------------------
(* Properties *)

Idx(df) == 1..Len(df)
TitlesOf(df) == {df[i].title : i \in Idx(df)}

\* the last position of a frame that holds title t
LastOf(df, t) == CHOOSE i \in Idx(df) :
    df[i].title = t /\ \A j \in (i + 1)..Len(df) : df[j].title # t

\* C1: once a record, identified by its title, has had if_summ = TRUE in the
\* persisted archive, no later run of process_links selects it; stated for
\* archives that hold one record per title, where the title identifies it.
C1_ProcessedNeverReselected ==
    (op = "process_links" /\ Cardinality(TitlesOf(pre)) = Len(pre)) =>
        \A i \in to_process : pre[i].title \notin was_summ

\* C2: after a run of process_links every selected record has if_summ = TRUE
\* exactly when its extraction returned a text (not None), whatever the
\* summarisation did.
C2_ProcessedIffExtracted ==
    op = "process_links" =>
        \A i \in to_process :
            archive[i].if_summ <=> (result_cols[i].content # None)

\* C3: merging the batch just merged a second time leaves the archive as it
\* is: merge(merge(A, B), B) = merge(A, B), also when A is a missing file.
C3_MergeIdempotent ==
    (op = "main" /\ new_df # <<>>) =>
        merge_with_archive(file = "complete", archive, new_df) = archive

\* C4: when main merges a batch into an existing archive, every title of the
\* concatenation existing-then-incoming has exactly one record in the merged
\* archive, equal in every field to its last occurrence in the concatenation
\* (the incoming record when the batch holds the title), and the merged
\* archive holds no other record.
C4_LastWriteWins ==
    (op = "main" /\ new_df # <<>> /\ pre # <<>>) =>
        LET cat == pre \o new_df IN
        /\ TitlesOf(archive) = TitlesOf(cat)
        /\ \A t \in TitlesOf(cat) :
            /\ Cardinality({i \in Idx(archive) : archive[i].title = t}) = 1
            /\ \A i \in Idx(archive) :
                 archive[i].title = t =>
                    /\ archive[i] = cat[LastOf(cat, t)]
                    /\ t \in TitlesOf(new_df) =>
                          archive[i] = new_df[LastOf(new_df, t)]

\* C4 witness: a batch brought a fresh record of a title whose archived
\* record was already summarised, and the fresh one replaced it
C4_Witness ==
    /\ op = "main"
    /\ \E i \in Idx(pre), j \in Idx(new_df), k \in Idx(archive) :
        /\ pre[i].title = new_df[j].title
        /\ pre[i].if_summ
        /\ pre[i].content = LongBody
        /\ archive[k].title = pre[i].title
        /\ ~archive[k].if_summ
        /\ archive[k].content = ""

\* C5: process_links selects exactly the records with a published time that
\* is not null and not older than now - window and with if_summ = FALSE; a
\* record without a time is never selected, a record published 5 hours ago
\* is selected under the 24-hour window and not under the 4-hour window.
C5_WindowSelection ==
    (op = "process_links" /\ file = "complete") =>
        /\ to_process =
              {i \in Idx(pre) :
                  /\ pre[i].utc_time # NaT
                  /\ pre[i].utc_time[1] >= now - Window(side)
                  /\ pre[i].if_summ = FALSE}
        /\ \A i \in Idx(pre) :
              /\ pre[i].utc_time = NaT => i \notin to_process
              /\ (pre[i].utc_time = Stamp(now - 5) /\ ~pre[i].if_summ) =>
                    /\ Window(side) = 24 => i \in to_process
                    /\ Window(side) = 4 => i \notin to_process

\* C5 witness: a run under the 4-hour window that selected a record on the
\* edge of the window while the archive also held a record without a time
C5_Witness ==
    /\ op = "process_links"
    /\ Window(side) = 4
    /\ \E i \in to_process : pre[i].utc_time = Stamp(now - 4)
    /\ \E j \in Idx(pre) : pre[j].utc_time = NaT

\* C6: after a run that crashed while writing the archive, the archive file
\* is the complete archive of before the run or the complete new one.
C6_CrashSafeSave ==
    op \in {"main_crash", "process_links_crash"} =>
        /\ file # "truncated"
        /\ \/ archive = pre
           \/ /\ op = "main_crash"
              /\ archive = merge_with_archive(pre # <<>>, pre, new_df)
           \/ /\ op = "process_links_crash"
              /\ Len(archive) = Len(pre)

\* C7: every record of the persisted archive with if_summ = TRUE has a
\* content that is neither null nor empty.
C7_SummedHasContent ==
    \A i \in Idx(archive) : archive[i].if_summ => Truthy(archive[i].content)

\* C7 witness: a run of process_links has just flagged a record
C7_Witness ==
    /\ op = "process_links"
    /\ \E i \in to_process : archive[i].if_summ /\ ~pre[i].if_summ

\* a link that is no Yahoo news link (by prefix) and holds neither
\* cnbc.com/202 nor businessinsider.com
NoPredicateHolds(url) ==
    /\ ~startswith(url, <<"https://", "finance.yahoo.com", "/news/">>)
    /\ ~startswith(url, <<"http://", "finance.yahoo.com", "/news/">>)
    /\ ~contains(url, <<"cnbc.com", "/202">>)
    /\ ~contains(url, <<"businessinsider.com">>)

\* C8: a record whose link no URL predicate holds of is never flagged: in
\* every archive its if_summ is FALSE, and a run of process_links leaves the
\* record as it was (a content that is unset stays unset).
C8_NoMatchNeverProcessed ==
    /\ \A i \in Idx(archive) :
          NoPredicateHolds(archive[i].link) => ~archive[i].if_summ
    /\ op = "process_links" =>
          \A i \in Idx(pre) :
              NoPredicateHolds(pre[i].link) => archive[i] = pre[i]

\* C8 witness: a run, hours after the publication, selected a record of an
\* unknown site, got nothing for it and left it unflagged and without content
C8_Witness ==
    /\ op = "process_links"
    /\ \E i \in to_process :
          /\ pre[i].link = UnknownUrl
          /\ pre[i].utc_time # Stamp(now)
          /\ result_cols[i].content = None
          /\ ~archive[i].if_summ
          /\ archive[i].content = ""

\* C9: a run of process_links adds and removes no record, leaves every
\* record it did not select as it was, and changes at most content, summary
\* and if_summ of those it selected.
C9_UpdateFrame ==
    op = "process_links" =>
        /\ Len(archive) = Len(pre)
        /\ \A i \in Idx(pre) :
              IF i \in to_process
              THEN [archive[i] EXCEPT !.content = pre[i].content,
                                      !.summary = pre[i].summary,
                                      !.if_summ = pre[i].if_summ] = pre[i]
              ELSE archive[i] = pre[i]

\* C9 witness: a run changed a selected record beside a record it did not select
C9_Witness ==
    /\ op = "process_links"
    /\ \E i \in to_process : archive[i] # pre[i]
    /\ \E j \in Idx(pre) : j \notin to_process /\ pre[j].content # ""

\* C10: every title in the persisted archive before an operation is in it
\* after the operation, and the number of titles does not decrease.
C10_NoDeletion ==
    /\ TitlesOf(pre) \subseteq TitlesOf(archive)
    /\ Cardinality(TitlesOf(archive)) >= Cardinality(TitlesOf(pre))

\* C10 witness: a merge into an archive of two titles of a batch that holds
\* only one of them
C10_Witness ==
    /\ op = "main"
    /\ TitlesOf(pre) = {"A", "B"}
    /\ TitlesOf(new_df) = {"A"}
    /\ archive # pre

\* C11: in a run of process_links no failure of an extraction, no missing
\* extractor and no failure of a summarisation leaves process_links as an
\* exception: the record it concerns stays unflagged, every other selected
\* record is still handled, and the records that were not selected keep
\* their saved fields.
C11_FailuresNeverAbort ==
    op = "process_links" =>
        /\ raised = None
        /\ \A i \in to_process :
              /\ result_cols[i].exc = None
              /\ (result_cols[i].content = None \/ result_cols[i].summary = None)
                    => ~archive[i].if_summ
        /\ \A j \in Idx(pre) \ to_process : archive[j] = pre[j]

\* the three URL predicates, in the words of the claim
IsYahoo(u) ==
    \/ startswith(u, <<"https://", "finance.yahoo.com", "/news/">>)
    \/ startswith(u, <<"http://", "finance.yahoo.com", "/news/">>)
IsCnbc(u) == contains(u, <<"cnbc.com", "/202">>)
IsInsider(u) == contains(u, <<"businessinsider.com">>)

\* C12: url_matcher returns the extractor of the first predicate that holds
\* in the order Yahoo, CNBC, Business Insider, and None when none holds; the
\* result is fixed by the URL.
C12_FirstMatchWins ==
    op = "url_matcher" =>
        /\ IsYahoo(arg_url) => matched = "extract_yahoo_content"
        /\ (~IsYahoo(arg_url) /\ IsCnbc(arg_url)) =>
              matched = "extract_cnbc_content"
        /\ (~IsYahoo(arg_url) /\ ~IsCnbc(arg_url) /\ IsInsider(arg_url)) =>
              matched = "extract_insider_content"
        /\ (~IsYahoo(arg_url) /\ ~IsCnbc(arg_url) /\ ~IsInsider(arg_url)) =>
              matched = None

\* C12 witness: a URL of which both the CNBC and the Business Insider
\* predicate hold went to the CNBC extractor
C12_Witness ==
    /\ op = "url_matcher"
    /\ ~IsYahoo(arg_url)
    /\ IsCnbc(arg_url)
    /\ IsInsider(arg_url)
    /\ matched = "extract_cnbc_content"

\* C13: with no archive file, a run of main that fetched something saves
\* exactly the fetched records and does not raise, and a run of process_links
\* returns without raising, selects nothing and leaves the archive file
\* missing.
C13_FirstRunNoArchive ==
    /\ (op = "main" /\ pre = <<>> /\ new_df # <<>>) =>
          /\ raised = None
          /\ file = "complete"
          /\ archive = new_df
    /\ (op = "process_links" /\ pre = <<>>) =>
          /\ raised = None
          /\ file = "missing"
          /\ archive = <<>>
          /\ to_process = {}
          /\ result_cols = NoResults

\* C13 witness: process_links has run, hours after the start, while no
\* archive file existed
C13_Witness ==
    /\ op = "process_links"
    /\ file = "missing"
    /\ pre = <<>>
    /\ now > 0

\* C14: a run of main whose feeds gave no entry at all leaves the archive
\* file and its records as they were, writes no snapshot and does not raise.
C14_EmptyFetchNoOp ==
    (op = "main" /\ new_df = <<>>) =>
        /\ archive = pre
        /\ (file = "missing") <=> (pre = <<>>)
        /\ snapshot = FALSE
        /\ raised = None

\* C14 witness: an empty fetch over an archive that holds a summarised record
C14_Witness ==
    /\ op = "main"
    /\ new_df = <<>>
    /\ \E i \in Idx(archive) : archive[i].if_summ /\ archive[i].summary = Digest

=============================================================================
